---- MODULE Spec2Model ----
(***************************************************************************)
(* Model of the EVE market arbitrage tool: the ingestion pipeline of       *)
(* src/data/fetch_data.py (reference lookups, the order cache, the paged   *)
(* fetch, the batch over regions) and the arbitrage engine of src/app.py.  *)
(*                                                                         *)
(* Collections are sets of documents.  Time is an integer number of        *)
(* minutes.  Prices are integers (ISK); derived amounts are kept in        *)
(* thousandths of an ISK before rounding and hundredths after.             *)
(***************************************************************************)
EXTENDS Integers, Sequences, FiniteSets, TLC

VARIABLES
    orders_col,          \* db["orders"]: set of order documents
    stations_col,        \* db["stations"]: set of station documents
    items_col,           \* db["items"]: set of item documents
    regions_col,         \* db["regions"]: set of region documents
    now,                 \* datetime.utcnow(), in minutes
    lastCall,            \* arguments of the latest save_orders_to_cache call
    rpc,                 \* concurrent reconcilers: position of each caller
    rargs,               \* concurrent reconcilers: (region_id, orders) of each
    existing_order_ids,  \* concurrent reconcilers: the local of that name
    shared_id,           \* some call carried an id that belongs to another region
    fpc,                 \* fetch_all_orders: position
    region_id,           \* fetch_all_orders: argument
    page,                \* fetch_all_orders: local page
    orders,              \* fetch_all_orders: local orders (accumulated)
    requests,            \* page numbers requested so far by this call
    responses,           \* responses received so far by this call
    status_code,         \* response.status_code of the latest page response
    returned,            \* value returned by fetch_all_orders
    bpc,                 \* fetch_data: position
    region_ids,          \* fetch_data: local region_ids
    idx,                 \* fetch_data: index of the region being processed
    todo_stations,       \* fetch_data: stations still to look up
    todo_types,          \* fetch_data: item types still to look up
    source_station,      \* find_arbitrage: argument
    dest_station,        \* find_arbitrage: argument
    results,             \* find_arbitrage: returned list
    apc                  \* find_arbitrage: "idle" until a call has returned

storeVars == <<orders_col, stations_col, items_col, regions_col, now>>
recVars   == <<lastCall>>
concVars  == <<rpc, rargs, existing_order_ids, shared_id>>
fetchVars ==
    <<fpc, region_id, page, orders, requests, responses, status_code, returned>>
batchVars == <<bpc, region_ids, idx, todo_stations, todo_types>>
arbVars   == <<source_station, dest_station, results, apc>>
vars == <<storeVars, recVars, concVars, fetchVars, batchVars, arbVars>>

\* Python's None where an integer is expected (ids are >= 0)
None == -1

\* no save_orders_to_cache call yet
NoCall ==
    [region_id |-> None, orders |-> <<>>, outdated |-> {}, repeat |-> FALSE,
     moved |-> {}]

(***************************************************************************)
(* Bounds                                                                  *)
(***************************************************************************)
MaxOrderId == 2      \* order ids 1..MaxOrderId in the ingestion models
MaxLen     == 2      \* longest incoming list handed to save_orders_to_cache
MaxStamp   == 1      \* the clock of the reconciliation models runs 0..MaxStamp
MaxConcLen == 1      \* longest list of a concurrent save_orders_to_cache call
MaxPages   == 3      \* largest X-Pages value the market API advertises
MaxTime    == 61     \* the clock of the fetch models stops here

MaxArbOrders == 7    \* orders 1..MaxArbOrders of the book the engine reads

\* fetch_data.py: CACHE_MINUTES
CACHE_MINUTES == 30

\* app.py: the fees in thousandths (0.03 and 0.015), the cache lifetime
\* and the hauling time in minutes
BROKER_FEE == 30
SALES_TAX == 15
app_CACHE_MINUTES == 10000
HAULING_TIME_MINUTES == 15

\* the "Unknown" security of a station that is not cached
Unknown == -2

Regions  == {1, 2}
OrderIds == 1..MaxOrderId

(***************************************************************************)
(* Raw order records as the market API returns them (no region_id, no      *)
(* last_updated).  Location, type, side and volume follow from the id;     *)
(* order 1 also exists at a second price, so that an order can change      *)
(* upstream and a list can carry one id twice with different contents.     *)
(***************************************************************************)

Raw(id, p) ==
    [order_id |-> id, location_id |-> 60 + id, type_id |-> 30 + (id % 2),
     is_buy_order |-> (id % 2 = 0), price |-> p, volume_remain |-> 5]

RawOrders == {Raw(id, 10) : id \in OrderIds} \cup {Raw(1, 20)}

SeqsUpTo(S, n) == UNION {[1..k -> S] : k \in 0..n}

OrderLists == SeqsUpTo(RawOrders, MaxLen)

(***************************************************************************)
(* The order cache: save_orders_to_cache                                   *)
(***************************************************************************)
\* order_ids = [order["order_id"] for order in orders], used as a set
Ids(os) == {os[i].order_id : i \in 1..Len(os)}

\* faulty variant: find({}) without the region filter
ExistingOrderIds_all(col, r) == {d.order_id : d \in col}

\* set(order["order_id"] for order in orders_col.find({"region_id": r}))
ExistingOrderIds(col, r) == {d.order_id : d \in {e \in col : e.region_id = r}}

\* faulty variant: a delete that removes nothing
delete_many_keep(col, ids) == col

\* orders_col.delete_many({"order_id": {"$in": ids}})

delete_many(col, ids) == {d \in col : d.order_id \notin ids}

\* order["region_id"] = region_id; order["last_updated"] = now
Stamped(o, r, t) ==
    [order_id |-> o.order_id, region_id |-> r, location_id |-> o.location_id,
     type_id |-> o.type_id, is_buy_order |-> o.is_buy_order,
     price |-> o.price, volume_remain |-> o.volume_remain,
     last_updated |-> t]

\* faulty variant: an insert that never matches the stored document
UpdateOne_insert(col, doc) == col \cup {doc}

\* faulty variant: the filter also matches on region_id
UpdateOne_byregion(col, doc) ==
    {d \in col : ~(d.order_id = doc.order_id /\ d.region_id = doc.region_id)}
        \cup {doc}

\* UpdateOne({"order_id": id}, {"$set": order}, upsert=True)

UpdateOne(col, doc) ==
    IF \E d \in col : d.order_id = doc.order_id
    THEN LET m == CHOOSE d \in col : d.order_id = doc.order_id
         IN  (col \ {m}) \cup {doc}
    ELSE col \cup {doc}

\* orders_col.bulk_write(operations): the operations in list order
RECURSIVE bulk_write(_, _)
bulk_write(col, ops) ==
    IF ops = <<>> THEN col
    ELSE bulk_write(UpdateOne(col, Head(ops)), Tail(ops))

Operations(os, r, t) == [i \in 1..Len(os) |-> Stamped(os[i], r, t)]

OutdatedOrderIds(existing, os) == existing \ Ids(os)

DeleteOutdated(col, outdated) ==
    IF outdated # {} THEN delete_many(col, outdated) ELSE col

WriteOperations(col, ops) ==
    IF ops # <<>> THEN bulk_write(col, ops) ELSE col

save_orders_to_cache(col, r, os, t) ==
    LET existing == ExistingOrderIds(col, r)
        outdated == OutdatedOrderIds(existing, os)
    IN  WriteOperations(DeleteOutdated(col, outdated), Operations(os, r, t))

(***************************************************************************)
(* Initial values of the variables a specification does not use            *)
(***************************************************************************)
RefInit   == stations_col = {} /\ items_col = {} /\ regions_col = {}
RecInit   == lastCall = NoCall
ConcInit  == /\ rpc = <<>> /\ rargs = <<>> /\ existing_order_ids = <<>>
             /\ shared_id = FALSE
FetchInit == /\ fpc = "idle" /\ region_id = None /\ page = 0 /\ orders = <<>>
             /\ requests = <<>> /\ responses = <<>>
             /\ status_code = None /\ returned = <<>>
BatchInit == /\ bpc = "idle" /\ region_ids = <<>> /\ idx = 0
             /\ todo_stations = {} /\ todo_types = {}
ArbInit   == /\ source_station = None /\ dest_station = None
             /\ results = <<>> /\ apc = "idle"

(***************************************************************************)
(* Spec: sequential calls of save_orders_to_cache                          *)
(***************************************************************************)
Init ==
    /\ orders_col = {} /\ now = 0
    /\ RefInit /\ RecInit /\ ConcInit /\ FetchInit /\ BatchInit /\ ArbInit

SaveOrdersToCache(r, os) ==
    /\ orders_col' = save_orders_to_cache(orders_col, r, os, now)
    /\ lastCall' = [region_id |-> r, orders |-> os,
                    outdated |-> OutdatedOrderIds(
                                     ExistingOrderIds(orders_col, r), os),
                    repeat |-> /\ lastCall # NoCall
                               /\ lastCall.region_id = r
                               /\ lastCall.orders = os,
                    moved |-> {d.order_id : d \in
                                 {c \in orders_col : /\ c.region_id # r
                                                     /\ c.order_id \in Ids(os)}}]
    /\ UNCHANGED <<stations_col, items_col, regions_col, now>>
    /\ UNCHANGED <<concVars, fetchVars, batchVars, arbVars>>

Tick ==
    /\ now < MaxStamp
    /\ now' = now + 1
    /\ UNCHANGED <<orders_col, stations_col, items_col, regions_col>>
    /\ UNCHANGED <<recVars, concVars, fetchVars, batchVars, arbVars>>

Next ==
    \/ \E r \in Regions, os \in OrderLists : SaveOrdersToCache(r, os)
    \/ Tick

Spec == Init /\ [][Next]_vars

(***************************************************************************)
(* SpecConc: two callers of save_orders_to_cache whose three database      *)
(* round trips (find, delete_many, bulk_write) interleave.  Nothing in     *)
(* the code serialises them.  Each round trip is one step.                 *)
(***************************************************************************)
Procs == {1, 2}

ConcLists == SeqsUpTo({Raw(id, 10) : id \in OrderIds}, MaxConcLen)

\* stores the callers can start from: each order absent or under a region
ConcStores ==
    {{Stamped(Raw(id, 10), f[id], 0) : id \in {i \in OrderIds : f[i] # None}} :
        f \in [OrderIds -> Regions \cup {None}]}

\* the list of caller p carries an id that another region holds or is writing
CarriesForeignId(p, r, os) ==
    \E id \in Ids(os) :
        \/ \E d \in orders_col : d.order_id = id /\ d.region_id # r
        \/ \E q \in Procs \ {p} :
              /\ rpc[q] \in {"read", "deleted"}
              /\ rargs[q].region_id # r
              /\ id \in Ids(rargs[q].orders)

ConcStart ==
    /\ orders_col \in ConcStores /\ now = 1
    /\ RefInit /\ RecInit /\ FetchInit /\ BatchInit /\ ArbInit
    /\ rpc = [p \in Procs |-> "idle"]
    /\ rargs = [p \in Procs |-> [region_id |-> None, orders |-> <<>>]]
    /\ existing_order_ids = [p \in Procs |-> {}]
    /\ shared_id = FALSE

\* lines 89-95: the call, and the read of the region's stored ids
RFind(p, r, os) ==
    /\ rpc[p] = "idle"
    /\ rpc' = [rpc EXCEPT ![p] = "read"]
    /\ rargs' = [rargs EXCEPT ![p] = [region_id |-> r, orders |-> os]]
    /\ existing_order_ids' =
          [existing_order_ids EXCEPT ![p] = ExistingOrderIds(orders_col, r)]
    /\ shared_id' = (shared_id \/ CarriesForeignId(p, r, os))
    /\ UNCHANGED <<storeVars, recVars, fetchVars, batchVars, arbVars>>

\* lines 96-99: delete the ids read but not incoming
RDelete(p) ==
    /\ rpc[p] = "read"
    /\ rpc' = [rpc EXCEPT ![p] = "deleted"]
    /\ orders_col' = DeleteOutdated(orders_col,
            OutdatedOrderIds(existing_order_ids[p], rargs[p].orders))
    /\ UNCHANGED <<stations_col, items_col, regions_col, now>>
    /\ UNCHANGED <<rargs, existing_order_ids, shared_id>>
    /\ UNCHANGED <<recVars, fetchVars, batchVars, arbVars>>

\* lines 101-110: stamp and upsert the incoming orders
RBulkWrite(p) ==
    /\ rpc[p] = "deleted"
    /\ rpc' = [rpc EXCEPT ![p] = "done"]
    /\ orders_col' = WriteOperations(orders_col,
            Operations(rargs[p].orders, rargs[p].region_id, now))
    /\ UNCHANGED <<stations_col, items_col, regions_col, now>>
    /\ UNCHANGED <<rargs, existing_order_ids, shared_id>>
    /\ UNCHANGED <<recVars, fetchVars, batchVars, arbVars>>

ConcNext ==
    \/ \E p \in Procs, r \in Regions, os \in ConcLists : RFind(p, r, os)
    \/ \E p \in Procs : RDelete(p)
    \/ \E p \in Procs : RBulkWrite(p)

SpecConc == ConcStart /\ [][ConcNext]_vars

(***************************************************************************)
(* SpecFetch: fetch_all_orders, one page request per step                  *)
(***************************************************************************)
Range(f) == {f[i] : i \in DOMAIN f}

\* the orders a list(cursor) can yield for a set of documents
ListsOf(S) == {f \in [1..Cardinality(S) -> S] : Range(f) = S}

\* faulty variant: $gt in place of $gte
load_cached_orders_gt(col, r, t) ==
    {d \in col : d.region_id = r /\ d.last_updated > t - CACHE_MINUTES}

\* orders_col.find({"region_id": r, "last_updated": {"$gte": cutoff}})
load_cached_orders(col, r, t) ==
    {d \in col : d.region_id = r /\ d.last_updated >= t - CACHE_MINUTES}

\* what one page request can come back with: a status, a body and
\* possibly an X-Pages header (neither is read when the status is not 200)
Batches == {<<>>} \cup {<<Raw(id, 10)>> : id \in OrderIds}

Responses ==
    {r \in [status_code : {200, 500}, batch : Batches,
            x_pages : {None} \cup (1..MaxPages)] :
        r.status_code # 200 => (r.batch = <<>> /\ r.x_pages = None)}

\* faulty variant: the loop goes on when the page index equals X-Pages
Breaks_gt(resp, pg) ==
    \/ resp.status_code # 200
    \/ resp.batch = <<>>
    \/ resp.x_pages = None
    \/ pg > resp.x_pages

\* faulty variant: an empty page does not end the loop
Breaks_nonempty(resp, pg) ==
    \/ resp.status_code # 200
    \/ resp.x_pages = None
    \/ pg >= resp.x_pages

\* lines 126-137 decide whether the loop ends after this response
Breaks(resp, pg) ==
    \/ resp.status_code # 200
    \/ resp.batch = <<>>
    \/ resp.x_pages = None
    \/ pg >= resp.x_pages

\* lines 129-132: what the response adds to orders
Extended(os, resp) ==
    IF resp.status_code = 200 THEN os \o resp.batch ELSE os

FetchStart ==
    /\ orders_col = {} /\ now = 0
    /\ RefInit /\ RecInit /\ ConcInit /\ FetchInit /\ BatchInit /\ ArbInit

\* lines 114-122: the cache check
FetchCall(r) ==
    /\ fpc = "idle"
    /\ region_id' = r
    /\ requests' = <<>>
    /\ responses' = <<>>
    /\ orders' = <<>>
    /\ status_code' = None
    /\ LET cached == load_cached_orders(orders_col, r, now)
       IN  IF cached # {}
           THEN /\ fpc' = "done" /\ page' = 0
                /\ returned' \in ListsOf(cached)
           ELSE /\ fpc' = "paging" /\ page' = 1
                /\ returned' = <<>>
    /\ UNCHANGED <<storeVars, recVars, concVars, batchVars, arbVars>>

\* lines 124-141: one request and its response; when the loop ends the
\* accumulated orders are saved and returned
PageResponse(resp) ==
    /\ fpc = "paging"
    /\ requests' = Append(requests, page)
    /\ responses' = Append(responses, resp)
    /\ status_code' = resp.status_code
    /\ orders' = Extended(orders, resp)
    /\ IF Breaks(resp, page)
       THEN /\ fpc' = "done"
            /\ page' = page
            /\ orders_col' = save_orders_to_cache(orders_col, region_id,
                                                  orders', now)
            /\ returned' = Operations(orders', region_id, now)
       ELSE /\ fpc' = "paging"
            /\ page' = page + 1
            /\ UNCHANGED <<orders_col, returned>>
    /\ UNCHANGED <<stations_col, items_col, regions_col, now, region_id>>
    /\ UNCHANGED <<recVars, concVars, batchVars, arbVars>>

\* line 125: requests.get raises (no connection, timeout)
PageRaise ==
    /\ fpc = "paging"
    /\ requests' = Append(requests, page)
    /\ fpc' = "raised"
    /\ UNCHANGED <<region_id, page, orders, responses, status_code, returned>>
    /\ UNCHANGED <<storeVars, recVars, concVars, batchVars, arbVars>>

\* the caller takes the result (or the exception)
FetchReturn ==
    /\ fpc \in {"done", "raised"}
    /\ fpc' = "idle" /\ region_id' = None /\ page' = 0 /\ orders' = <<>>
    /\ requests' = <<>> /\ responses' = <<>>
    /\ status_code' = None /\ returned' = <<>>
    /\ UNCHANGED <<storeVars, recVars, concVars, batchVars, arbVars>>

\* time passes: up to the cache lifetime, or just beyond it
FetchTick(d) ==
    /\ now + d <= MaxTime
    /\ now' = now + d
    /\ UNCHANGED <<orders_col, stations_col, items_col, regions_col>>
    /\ UNCHANGED <<recVars, concVars, fetchVars, batchVars, arbVars>>

FetchNext ==
    \/ \E r \in Regions : bpc = "idle" /\ FetchCall(r)
    \/ \E resp \in Responses : PageResponse(resp)
    \/ PageRaise
    \/ FetchReturn
    \/ \E d \in {CACHE_MINUTES, CACHE_MINUTES + 1} : FetchTick(d)

SpecFetch == FetchStart /\ [][FetchNext]_vars

(***************************************************************************)
(* Reference lookups: get_region_name, get_station_info, get_item_name     *)
(*                                                                         *)
(* A name is a pair: <<"name", id>> is the name the API gives for id,      *)
(* <<"str", id>> is str(id) and <<"Type", id>> is f"Type {id}".            *)
(* A lookup that misses the cache meets one of RefOutcomes: a 200 with a   *)
(* name, a 200 without one, another status, or requests.get raising.       *)
(***************************************************************************)
RefOutcomes == {"ok", "noname", "fail", "raise"}

\* the security value the API reports for a station
ApiSecurity(id) == id % 10

get_region_name(col, id, out) ==
    IF \E c \in col : c.region_id = id
    THEN [col |-> col, raised |-> FALSE, called |-> FALSE,
          name |-> (CHOOSE c \in col : c.region_id = id).name]
    ELSE IF out = "raise"
    THEN [col |-> col, raised |-> TRUE, called |-> TRUE, name |-> <<>>]
    ELSE IF out = "fail"
    THEN [col |-> col, raised |-> FALSE, called |-> TRUE, name |-> <<"str", id>>]
    ELSE LET name == IF out = "ok" THEN <<"name", id>> ELSE <<"str", id>>
         IN  [col |-> col \cup {[region_id |-> id, name |-> name]},
              raised |-> FALSE, called |-> TRUE, name |-> name]

get_station_info(col, id, out) ==
    IF \E c \in col : c.station_id = id
    THEN LET c == CHOOSE c \in col : c.station_id = id
         IN  [col |-> col, raised |-> FALSE, called |-> FALSE,
              name |-> c.name, security |-> c.security]
    ELSE IF out = "raise"
    THEN [col |-> col, raised |-> TRUE, called |-> TRUE,
          name |-> <<>>, security |-> None]
    ELSE IF out = "fail"
    THEN [col |-> col, raised |-> FALSE, called |-> TRUE,
          name |-> <<"str", id>>, security |-> None]
    ELSE LET name == IF out = "ok" THEN <<"name", id>> ELSE <<"str", id>>
             sec  == IF out = "ok" THEN ApiSecurity(id) ELSE None
         IN  [col |-> col \cup {[station_id |-> id, name |-> name,
                                 security |-> sec]},
              raised |-> FALSE, called |-> TRUE,
              name |-> name, security |-> sec]

get_item_name(col, id, out) ==
    IF \E c \in col : c.type_id = id
    THEN [col |-> col, raised |-> FALSE, called |-> FALSE,
          name |-> (CHOOSE c \in col : c.type_id = id).name]
    ELSE IF out = "raise"
    THEN [col |-> col, raised |-> TRUE, called |-> TRUE, name |-> <<>>]
    ELSE IF out = "fail"
    THEN [col |-> col, raised |-> FALSE, called |-> TRUE, name |-> <<"Type", id>>]
    ELSE LET name == IF out = "ok" THEN <<"name", id>> ELSE <<"Type", id>>
         IN  [col |-> col \cup {[type_id |-> id, name |-> name]},
              raised |-> FALSE, called |-> TRUE, name |-> name]

(***************************************************************************)
(* SpecBatch: fetch_data, the batch over all regions                       *)
(***************************************************************************)
\* the region lists get_all_region_ids can return
RegionLists == ListsOf(Regions)

BatchStart ==
    /\ orders_col \in ConcStores /\ now \in {0, CACHE_MINUTES + 1}
    /\ RefInit /\ RecInit /\ ConcInit /\ FetchInit /\ BatchInit /\ ArbInit

\* lines 145-152: the region list; exit(1) when it cannot be fetched
BatchBegin(ok, ids) ==
    /\ bpc = "idle"
    /\ IF ok
       THEN /\ region_ids' = ids /\ idx' = 1
            /\ bpc' = IF ids = <<>> THEN "finished" ELSE "name"
       ELSE /\ region_ids' = <<>> /\ idx' = 0 /\ bpc' = "exit"
    /\ UNCHANGED <<todo_stations, todo_types>>
    /\ UNCHANGED <<storeVars, recVars, concVars, fetchVars, arbVars>>

\* line 155: get_region_name is called outside any try
BatchRegionName(out) ==
    /\ bpc = "name"
    /\ LET res == get_region_name(regions_col, region_ids[idx], out)
       IN  /\ regions_col' = res.col
           /\ bpc' = IF res.raised THEN "aborted" ELSE "fetch"
    /\ UNCHANGED <<orders_col, stations_col, items_col, now>>
    /\ UNCHANGED <<region_ids, idx, todo_stations, todo_types>>
    /\ UNCHANGED <<recVars, concVars, fetchVars, arbVars>>

\* where the loop goes when the lookups left are those of ss and ts
After(ss, ts) ==
    IF ss # {} THEN "stations"
    ELSE IF ts # {} THEN "items"
    ELSE IF idx < Len(region_ids) THEN "name"
    ELSE "finished"

NextIdx(ss, ts) == IF ss = {} /\ ts = {} THEN idx + 1 ELSE idx

\* lines 159-167: the orders came back, or the exception is caught
BatchAfterFetch ==
    /\ bpc = "fetch"
    /\ fpc \in {"done", "raised"}
    /\ LET ss == IF fpc = "done" THEN {o.location_id : o \in Range(returned)}
                 ELSE {}
           ts == IF fpc = "done" THEN {o.type_id : o \in Range(returned)}
                 ELSE {}
       IN  /\ todo_stations' = ss /\ todo_types' = ts
           /\ bpc' = After(ss, ts) /\ idx' = NextIdx(ss, ts)
    /\ fpc' = "idle" /\ region_id' = None /\ page' = 0 /\ orders' = <<>>
    /\ requests' = <<>> /\ responses' = <<>>
    /\ status_code' = None /\ returned' = <<>>
    /\ UNCHANGED region_ids
    /\ UNCHANGED <<storeVars, recVars, concVars, arbVars>>

\* lines 169-170: one station of unique_stations, outside any try
BatchStation(id, out) ==
    /\ bpc = "stations"
    /\ id \in todo_stations
    /\ LET res == get_station_info(stations_col, id, out)
           ss  == todo_stations \ {id}
       IN  /\ stations_col' = res.col
           /\ todo_stations' = ss
           /\ bpc' = IF res.raised THEN "aborted" ELSE After(ss, todo_types)
           /\ idx' = IF res.raised THEN idx ELSE NextIdx(ss, todo_types)
    /\ UNCHANGED <<orders_col, items_col, regions_col, now>>
    /\ UNCHANGED <<region_ids, todo_types>>
    /\ UNCHANGED <<recVars, concVars, fetchVars, arbVars>>

\* lines 171-172: one type of unique_types, outside any try
BatchItem(id, out) ==
    /\ bpc = "items"
    /\ id \in todo_types
    /\ LET res == get_item_name(items_col, id, out)
           ts  == todo_types \ {id}
       IN  /\ items_col' = res.col
           /\ todo_types' = ts
           /\ bpc' = IF res.raised THEN "aborted" ELSE After({}, ts)
           /\ idx' = IF res.raised THEN idx ELSE NextIdx({}, ts)
    /\ UNCHANGED <<orders_col, stations_col, regions_col, now>>
    /\ UNCHANGED <<region_ids, todo_stations>>
    /\ UNCHANGED <<recVars, concVars, fetchVars, arbVars>>

BatchNext ==
    \/ \E ok \in BOOLEAN, ids \in RegionLists : BatchBegin(ok, ids)
    \/ \E out \in RefOutcomes : BatchRegionName(out)
    \/ bpc = "fetch" /\ FetchCall(region_ids[idx])
    \/ \E resp \in Responses : bpc = "fetch" /\ PageResponse(resp)
    \/ bpc = "fetch" /\ PageRaise
    \/ BatchAfterFetch
    \/ \E id \in todo_stations, out \in RefOutcomes : BatchStation(id, out)
    \/ \E id \in todo_types, out \in RefOutcomes : BatchItem(id, out)

SpecBatch == BatchStart /\ [][BatchNext]_vars

(***************************************************************************)
(* The arbitrage engine: find_arbitrage of app.py                          *)
(*                                                                         *)
(* Prices are whole ISK.  Amounts before rounding are in thousandths of    *)
(* an ISK, round(x, 2) yields hundredths, and the margin is kept in        *)
(* tenths of a percent as the "{:.1%}" format prints it.                   *)
(***************************************************************************)
\* n / d rounded to the nearest integer, ties to even (d > 0)
RoundDiv(n, d) ==
    LET q == n \div d
        r == n % d
    IN  IF 2 * r < d THEN q
        ELSE IF 2 * r > d THEN q + 1
        ELSE IF q % 2 = 0 THEN q ELSE q + 1

\* round(x, 2) of an amount in thousandths, in hundredths
Round2(milli) == RoundDiv(milli, 10)

\* app.py get_station_data: the cached document or a placeholder
get_station_data(station_id) ==
    IF \E c \in stations_col : c.station_id = station_id
    THEN CHOOSE c \in stations_col : c.station_id = station_id
    ELSE [name |-> <<"str", station_id>>, security |-> Unknown]

\* app.py get_item_name: the cached name or f"Type {type_id}"
app_get_item_name(type_id) ==
    IF \E c \in items_col : c.type_id = type_id
    THEN (CHOOSE c \in items_col : c.type_id = type_id).name
    ELSE <<"Type", type_id>>

\* faulty variant: a lookup that stores the placeholder on a miss
stations_after_insert(col, station_id) ==
    IF \E c \in col : c.station_id = station_id THEN col
    ELSE col \cup {[station_id |-> station_id,
                    name |-> <<"str", station_id>>, security |-> Unknown]}

\* app.py lines 31-33: stations_col after get_station_data(station_id),
\* which calls find_one and nothing else
stations_after(col, station_id) == col

\* app.py lines 35-37: items_col after get_item_name(type_id)
items_after(col, type_id) == col

\* lines 96-99: the reference collections after the lookups made for the
\* opportunities rs (a skipped type raises before its lookups)
RECURSIVE StationsAfterLookups(_, _)
StationsAfterLookups(col, rs) ==
    IF rs = <<>> THEN col
    ELSE StationsAfterLookups(
             stations_after(stations_after(col, Head(rs).source_station.name[2]),
                            Head(rs).dest_station.name[2]),
             Tail(rs))

RECURSIVE ItemsAfterLookups(_, _)
ItemsAfterLookups(col, rs) ==
    IF rs = <<>> THEN col
    ELSE ItemsAfterLookups(items_after(col, Head(rs).item[2]), Tail(rs))

\* faulty variants: no cutoff at all, and $gt in place of $gte
Fresh_all(d, t) == TRUE

Fresh_gt(d, t) == d.last_updated > t - app_CACHE_MINUTES

\* {"last_updated": {"$gte": cutoff}} with cutoff = utcnow() - CACHE_MINUTES
Fresh(d, t) == d.last_updated >= t - app_CACHE_MINUTES

\* faulty variant: a pre-check query without any condition
PreCheckOrders_any(col, src, dst, t) == col

\* lines 43-54: the query of the pre-check
PreCheckOrders(col, src, dst, t) ==
    {d \in col :
        /\ Fresh(d, t)
        /\ IF src # None /\ dst # None
           THEN d.location_id = src \/ d.location_id = dst
           ELSE IF src # None THEN d.location_id = src
           ELSE IF dst # None THEN d.location_id = dst
           ELSE TRUE}

\* Python truth of an optional integer: None and 0 are false
Truthy(x) == x # None /\ x # 0

\* lines 58-67: the two side queries
SellOrders(col, src, t) ==
    {d \in col : /\ d.is_buy_order = FALSE /\ Fresh(d, t)
                 /\ (Truthy(src) => d.location_id = src)}

\* faulty variant: the buy-side query without its is_buy_order condition
BuyOrders_anyside(col, dst, t) ==
    {d \in col : Fresh(d, t) /\ (Truthy(dst) => d.location_id = dst)}

BuyOrders(col, dst, t) ==
    {d \in col : /\ d.is_buy_order = TRUE /\ Fresh(d, t)
                 /\ (Truthy(dst) => d.location_id = dst)}

\* lines 69-75: sell_by_type[type_id], buy_by_type[type_id]
ByType(os, type_id) == {o \in os : o.type_id = type_id}

\* line 78
CommonTypeIds(sells, buys) ==
    {o.type_id : o \in sells} \cap {o.type_id : o \in buys}

\* faulty variant: max in place of min
BestSell_max(os) == {o \in os : \A q \in os : o.price >= q.price}

\* line 82: the orders min(..., key=price) can return (the first of the
\* cheapest in cursor order, which the query does not fix)
BestSell(os) == {o \in os : \A q \in os : o.price <= q.price}

\* line 83: the orders max(..., key=price) can return
BestBuy(os) == {o \in os : \A q \in os : o.price >= q.price}

Min2(a, b) == IF a <= b THEN a ELSE b

\* faulty variant: the fees are not deducted
ProceedsPerUnit_nofee(buy_price) == buy_price * 1000

\* line 89, in thousandths
ProceedsPerUnit(buy_price) == buy_price * (1000 - BROKER_FEE - SALES_TAX)

\* line 92 raises ZeroDivisionError
Fails(best_sell) == best_sell.price = 0

\* lines 85-107: the opportunity of one type
Opportunity(type_id, best_sell, best_buy) ==
    LET sell_price   == best_sell.price
        buy_price    == best_buy.price
        volume       == Min2(best_sell.volume_remain, best_buy.volume_remain)
        unit_profit  == ProceedsPerUnit(buy_price) - sell_price * 1000
        total_profit == unit_profit * volume
    IN  [item           |-> app_get_item_name(type_id),
         source_station |-> get_station_data(best_sell.location_id),
         dest_station   |-> get_station_data(best_buy.location_id),
         buy_price      |-> Round2(sell_price * 1000),
         sell_price     |-> Round2(buy_price * 1000),
         volume         |-> volume,
         unit_profit    |-> Round2(unit_profit),
         total_profit   |-> Round2(total_profit),
         margin         |-> RoundDiv(unit_profit, sell_price),
         isk_per_minute |-> RoundDiv(total_profit, 10 * HAULING_TIME_MINUTES)]

\* faulty variant: a type whose computation raises ends the whole loop
RECURSIVE Collect_abort(_, _, _)
Collect_abort(ts, sells, buys) ==
    IF ts = <<>> THEN {<<>>}
    ELSE LET type_id == Head(ts)
             rests   == Collect_abort(Tail(ts), sells, buys)
         IN  UNION {
               {IF Fails(best_sell) THEN <<>>
                ELSE <<Opportunity(type_id, best_sell, best_buy)>> \o rest :
                   rest \in rests} :
               best_sell \in BestSell(ByType(sells, type_id)),
               best_buy \in BestBuy(ByType(buys, type_id))}

\* lines 80-109: the loop over common_type_ids in the order ts; each type
\* takes one of the orders min and max can return, and a type whose
\* computation raises is skipped.  The result is the set of lists the
\* loop can build.
RECURSIVE Collect(_, _, _)
Collect(ts, sells, buys) ==
    IF ts = <<>> THEN {<<>>}
    ELSE LET type_id == Head(ts)
             rests   == Collect(Tail(ts), sells, buys)
         IN  UNION {
               {IF Fails(best_sell) THEN rest
                ELSE <<Opportunity(type_id, best_sell, best_buy)>> \o rest :
                   rest \in rests} :
               best_sell \in BestSell(ByType(sells, type_id)),
               best_buy \in BestBuy(ByType(buys, type_id))}

\* the lists find_arbitrage can return: one per iteration order of the
\* set common_type_ids and per choice among equally priced best orders
find_arbitrage(col, src, dst, t) ==
    IF PreCheckOrders(col, src, dst, t) = {} THEN {<<>>}
    ELSE LET sells  == SellOrders(col, src, t)
             buys   == BuyOrders(col, dst, t)
             common == CommonTypeIds(sells, buys)
         IN  UNION {Collect(ts, sells, buys) : ts \in ListsOf(common)}

(***************************************************************************)
(* SpecArb: find_arbitrage over the stores it can meet                     *)
(***************************************************************************)
ArbIds == 1..MaxArbOrders

\* the order book: two sells and two buys of type 34, a free sell, a buy
\* and a dear sell of type 35, and a second buy of type 34 at the top price
ArbOrder(id) ==
    CASE id = 1 -> [type_id |-> 34, is_buy_order |-> FALSE, price |-> 10, volume_remain |-> 5]
      [] id = 2 -> [type_id |-> 34, is_buy_order |-> FALSE, price |-> 12, volume_remain |-> 3]
      [] id = 3 -> [type_id |-> 34, is_buy_order |-> TRUE,  price |-> 20, volume_remain |-> 2]
      [] id = 4 -> [type_id |-> 34, is_buy_order |-> TRUE,  price |-> 18, volume_remain |-> 10]
      [] id = 5 -> [type_id |-> 35, is_buy_order |-> FALSE, price |-> 0,  volume_remain |-> 5]
      [] id = 6 -> [type_id |-> 35, is_buy_order |-> TRUE,  price |-> 10, volume_remain |-> 2]
      [] id = 7 -> [type_id |-> 35, is_buy_order |-> FALSE, price |-> 12, volume_remain |-> 3]
      [] OTHER  -> [type_id |-> 34, is_buy_order |-> TRUE,  price |-> 20, volume_remain |-> 10]

Locations == {0, 1, 2}

\* the clock of the engine model; the cutoff is then minute 1
ArbNow == app_CACHE_MINUTES + 1

\* an order is stored fresh (stamped exactly at the cutoff) at one of the
\* locations, or stale (one minute older) at location 1
Placements ==
    {[location_id |-> l, last_updated |-> ArbNow - app_CACHE_MINUTES] :
        l \in Locations}
    \cup {[location_id |-> 1, last_updated |-> ArbNow - app_CACHE_MINUTES - 1]}

ArbDoc(id, pl) ==
    [order_id |-> id, region_id |-> 1, location_id |-> pl.location_id,
     type_id |-> ArbOrder(id).type_id,
     is_buy_order |-> ArbOrder(id).is_buy_order,
     price |-> ArbOrder(id).price,
     volume_remain |-> ArbOrder(id).volume_remain,
     last_updated |-> pl.last_updated]

\* every order of the book stored somewhere, or the empty store
ArbStores ==
    {{}} \cup {{ArbDoc(id, f[id]) : id \in ArbIds} : f \in [ArbIds -> Placements]}

\* the reference caches when filled: station 1 and type 34
ArbStations == {[station_id |-> 1, name |-> <<"name", 1>>, security |-> ApiSecurity(1)]}

ArbItems == {[type_id |-> 34, name |-> <<"name", 34>>]}

SourceFilters == {None, 0, 1}
DestFilters   == {None, 0, 2}

ArbStart ==
    /\ orders_col \in ArbStores /\ now = ArbNow
    /\ \E full \in BOOLEAN :
          /\ stations_col = IF full THEN ArbStations ELSE {}
          /\ items_col = IF full THEN ArbItems ELSE {}
    /\ regions_col = {}
    /\ RecInit /\ ConcInit /\ FetchInit /\ BatchInit /\ ArbInit

FindArbitrage(src, dst) ==
    /\ apc = "idle"
    /\ source_station' = src
    /\ dest_station' = dst
    /\ results' \in find_arbitrage(orders_col, src, dst, now)
    /\ apc' = "done"
    /\ stations_col' = StationsAfterLookups(stations_col, results')
    /\ items_col' = ItemsAfterLookups(items_col, results')
    /\ UNCHANGED <<orders_col, regions_col, now>>
    /\ UNCHANGED <<recVars, concVars, fetchVars, batchVars>>

\* the caller has taken the list
ArbReturn ==
    /\ apc = "done"
    /\ source_station' = None /\ dest_station' = None
    /\ results' = <<>> /\ apc' = "idle"
    /\ UNCHANGED <<storeVars, recVars, concVars, fetchVars, batchVars>>

ArbNext ==
    \/ \E src \in SourceFilters, dst \in DestFilters : FindArbitrage(src, dst)
    \/ ArbReturn

SpecArb == ArbStart /\ [][ArbNext]_vars

\* A document without its last_updated stamp
Unstamped(d) ==
    [order_id |-> d.order_id, region_id |-> d.region_id,
     location_id |-> d.location_id, type_id |-> d.type_id,
     is_buy_order |-> d.is_buy_order, price |-> d.price,
     volume_remain |-> d.volume_remain]

Strip(col) == {Unstamped(d) : d \in col}

\* C2: after save_orders_to_cache(region, orders) the ids stored for the
\* region are exactly the ids of the incoming list (empty and repeating
\* lists included), and every incoming id is stored under that region.
C2_ExactIds ==
    lastCall # NoCall =>
        /\ ExistingOrderIds(orders_col, lastCall.region_id) = Ids(lastCall.orders)
        /\ \A id \in Ids(lastCall.orders) :
              \E d \in orders_col :
                  d.order_id = id /\ d.region_id = lastCall.region_id
        /\ \A d \in orders_col : d.order_id \notin lastCall.outdated

\* a call that deleted a vanished order and took a list repeating an id
C2_Witness ==
    /\ lastCall # NoCall
    /\ lastCall.outdated # {}
    /\ Len(lastCall.orders) = 2
    /\ lastCall.orders[1].order_id = lastCall.orders[2].order_id
    /\ lastCall.orders[1].price # lastCall.orders[2].price

\* C3: a second save_orders_to_cache with the same arguments leaves the
\* same orders with the same region, location, type, side, price and
\* volume as the first did (only last_updated moves).
C3_Idempotent ==
    [][(lastCall'.repeat /\ now' = now) =>
          /\ Strip(orders_col') = Strip(orders_col)
          /\ Cardinality(orders_col') = Cardinality(orders_col)]_vars

\* a repeated call of a two-order list whose second run restamped the orders
C3_Witness ==
    /\ lastCall # NoCall
    /\ lastCall.repeat
    /\ Len(lastCall.orders) = 2
    /\ lastCall.orders[1].order_id # lastCall.orders[2].order_id
    /\ now > 0
    /\ \A d \in orders_col :
          d.region_id = lastCall.region_id => d.last_updated = now

\* C4 as claimed: no step of a caller reconciling region A removes or
\* changes a document stored under another region, whatever its list.
C4_AnyList ==
    [][\A p \in Procs :
          rpc'[p] # rpc[p] =>
              \A d \in orders_col :
                  d.region_id # rargs'[p].region_id => d \in orders_col']_vars

\* C4 as amended: while no call has carried an order id that belongs to
\* another region (stored under it, or in the list of a call in progress
\* for it), no step of a caller reconciling region A removes or changes a
\* document stored under another region, under every interleaving.
C4_DisjointIds ==
    [][\A p \in Procs :
          (rpc'[p] # rpc[p] /\ ~shared_id') =>
              \A d \in orders_col :
                  d.region_id # rargs'[p].region_id => d \in orders_col']_vars

\* caller 1 finished reconciling region 1 (it deleted a vanished order)
\* while caller 2 was in the middle of reconciling region 2, whose stored
\* order is still there
C4_Witness ==
    /\ ~shared_id
    /\ rpc[1] = "done" /\ rargs[1].region_id = 1
    /\ rpc[2] = "deleted" /\ rargs[2].region_id = 2
    /\ existing_order_ids[1] \ Ids(rargs[1].orders) # {}
    /\ existing_order_ids[2] # {}
    /\ \E d \in orders_col : d.region_id = 2

\* C5 as claimed: when two concurrent calls for one region have both
\* finished, the region holds the ids of one of the two lists.
C5_NoLostUpdate ==
    (/\ rpc[1] = "done" /\ rpc[2] = "done"
     /\ rargs[1].region_id = rargs[2].region_id) =>
        ExistingOrderIds(orders_col, rargs[1].region_id)
            \in {Ids(rargs[1].orders), Ids(rargs[2].orders)}

RegionDocs(col, r) == {d \in col : d.region_id = r}

\* C1 as claimed: when the paging loop ends on a non-success response,
\* the documents stored for the region are those stored before the call.
C1_FailedFetchKeepsStore ==
    [][(fpc = "paging" /\ fpc' = "done" /\ status_code' # 200) =>
          RegionDocs(orders_col', region_id) = RegionDocs(orders_col, region_id)]_vars

\* C7: a call for a region that holds an order stamped at or after
\* now - CACHE_MINUTES ends at once, having requested no page and left the
\* store alone, and returns exactly the region's orders with such a stamp.
C7_FreshServedFromCache ==
    [][(/\ fpc = "idle" /\ fpc' # "idle"
        /\ \E d \in orders_col :
              d.region_id = region_id' /\ d.last_updated >= now - CACHE_MINUTES) =>
          /\ fpc' = "done"
          /\ requests' = <<>>
          /\ orders_col' = orders_col
          /\ Range(returned') =
                {d \in orders_col : /\ d.region_id = region_id'
                                    /\ d.last_updated >= now - CACHE_MINUTES}
          /\ Len(returned') = Cardinality(Range(returned'))]_vars

\* a call answered from the cache with the region's order, stamped exactly
\* at the cutoff, while another region's order stays out of the answer
C7_Witness ==
    /\ fpc = "done" /\ requests = <<>>
    /\ Len(returned) = 1
    /\ returned[1] \in orders_col
    /\ returned[1].region_id = region_id
    /\ returned[1].last_updated = now - CACHE_MINUTES
    /\ now > 0
    /\ \E d \in orders_col : d.region_id # region_id

\* C6 as claimed: the batch is never cut short by an exception while
\* regions are still to be processed.
C6_BatchContinues ==
    bpc = "aborted" => idx = Len(region_ids)

(***************************************************************************)
(* Reading the engine's answer                                             *)
(***************************************************************************)
\* the type, source and destination an opportunity names
TypeOf(r) == r.item[2]

SourceOf(r) == r.source_station.name[2]

DestOf(r) == r.dest_station.name[2]

\* the stored sell orders of a type the engine may draw on in this call:
\* stamped at or after the cutoff and, when a source location is given,
\* located there (the code takes location 0 as not given)
UsableSells(ty) ==
    {d \in orders_col :
        /\ d.is_buy_order = FALSE /\ d.type_id = ty
        /\ d.last_updated >= now - app_CACHE_MINUTES
        /\ (source_station \notin {None, 0} => d.location_id = source_station)}

UsableBuys(ty) ==
    {d \in orders_col :
        /\ d.is_buy_order = TRUE /\ d.type_id = ty
        /\ d.last_updated >= now - app_CACHE_MINUTES
        /\ (dest_station \notin {None, 0} => d.location_id = dest_station)}

MinPrice(os) == CHOOSE p \in {o.price : o \in os} : \A o \in os : p <= o.price

MaxPrice(os) == CHOOSE p \in {o.price : o \in os} : \A o \in os : p >= o.price

\* r is the opportunity of sell order s and buy order b
Matches(r, s, b) ==
    /\ s.type_id = TypeOf(r) /\ b.type_id = TypeOf(r)
    /\ r.buy_price = 100 * s.price /\ r.sell_price = 100 * b.price
    /\ SourceOf(r) = s.location_id /\ DestOf(r) = b.location_id
    /\ r.volume = Min2(s.volume_remain, b.volume_remain)

\* the types the call must answer for when both filters are absent or a
\* positive location id: a usable sell and a usable buy, no free sell
Answerable ==
    {ty \in {d.type_id : d \in orders_col} :
        /\ UsableSells(ty) # {} /\ UsableBuys(ty) # {}
        /\ MinPrice(UsableSells(ty)) # 0}

\* C8: every returned opportunity is that of a stored sell order and a
\* stored buy order both stamped at or after now - CACHE_MINUTES, and an
\* order stamped exactly at the cutoff is used: a type with a usable sell
\* and buy stamped exactly at the cutoff is answered.
C8_CutoffInclusive ==
    apc = "done" =>
        /\ \A i \in 1..Len(results) :
              \E s, b \in orders_col :
                  /\ s.is_buy_order = FALSE /\ b.is_buy_order = TRUE
                  /\ s.last_updated >= now - app_CACHE_MINUTES
                  /\ b.last_updated >= now - app_CACHE_MINUTES
                  /\ Matches(results[i], s, b)
        /\ (source_station # 0 /\ dest_station # 0) =>
              \A ty \in Answerable :
                  ((\E s \in UsableSells(ty) :
                        s.last_updated = now - app_CACHE_MINUTES)
                   /\ (\E b \in UsableBuys(ty) :
                        b.last_updated = now - app_CACHE_MINUTES))
                  => \E i \in 1..Len(results) : TypeOf(results[i]) = ty

\* an opportunity was returned at the dearer sell price 12 although the
\* cheaper sell order of the type is stored, one minute older than the
\* cutoff, at a location the source filter admits
C8_Witness ==
    /\ apc = "done"
    /\ \E i \in 1..Len(results) :
          /\ TypeOf(results[i]) = 34
          /\ results[i].buy_price = 1200
          /\ \E d \in orders_col :
                /\ d.order_id = 1
                /\ d.last_updated = now - app_CACHE_MINUTES - 1
                /\ source_station \in {None, d.location_id}
          /\ \E d \in orders_col :
                /\ d.order_id = 2
                /\ d.last_updated = now - app_CACHE_MINUTES

\* C9: each returned opportunity reports the lowest price among the
\* usable sell orders of its type, the highest price among the usable buy
\* orders, and the smaller remaining volume of the one sell and one buy
\* order selected at those prices.
C9_BestPrices ==
    apc = "done" =>
        \A i \in 1..Len(results) :
            LET r     == results[i]
                sells == UsableSells(TypeOf(r))
                buys  == UsableBuys(TypeOf(r))
            IN  /\ sells # {} /\ buys # {}
                /\ r.buy_price = 100 * MinPrice(sells)
                /\ r.sell_price = 100 * MaxPrice(buys)
                /\ \E s \in sells, b \in buys :
                      /\ s.price = MinPrice(sells)
                      /\ b.price = MaxPrice(buys)
                      /\ Matches(r, s, b)

\* sells (10,5),(12,3) and buys (20,2),(18,10) of type 34 are all usable
\* and the opportunity reports prices 10 and 20 and volume 2
C9_Witness ==
    /\ apc = "done"
    /\ {d.order_id : d \in UsableSells(34)} = {1, 2}
    /\ {d.order_id : d \in UsableBuys(34)} = {3, 4}
    /\ \E i \in 1..Len(results) :
          /\ TypeOf(results[i]) = 34
          /\ results[i].buy_price = 1000
          /\ results[i].sell_price = 2000
          /\ results[i].volume = 2

\* C10: for each returned opportunity, in hundredths of an ISK,
\* unit_profit = buy-side price x (1 - BROKER_FEE - SALES_TAX) - sell-side
\* price for the selected orders and total_profit = unit_profit x volume;
\* and a type whose best buy-side price net of fees is below its best
\* sell-side price is returned, with a negative unit_profit.
C10_Profit ==
    apc = "done" =>
        /\ \A i \in 1..Len(results) :
              LET r == results[i]
              IN  /\ \E s \in UsableSells(TypeOf(r)), b \in UsableBuys(TypeOf(r)) :
                        /\ Matches(r, s, b)
                        /\ 10 * r.unit_profit =
                              b.price * (1000 - BROKER_FEE - SALES_TAX)
                                - s.price * 1000
                  /\ r.total_profit = r.unit_profit * r.volume
        /\ (source_station # 0 /\ dest_station # 0) =>
              \A ty \in Answerable :
                  MaxPrice(UsableBuys(ty)) * (1000 - BROKER_FEE - SALES_TAX)
                      < MinPrice(UsableSells(ty)) * 1000
                  => \E i \in 1..Len(results) :
                        /\ TypeOf(results[i]) = ty
                        /\ results[i].unit_profit < 0

\* one answer holds sell 10, buy 20, volume 2 with unit_profit 9.10 and
\* total_profit 18.20, and a second opportunity with a negative profit
C10_Witness ==
    /\ apc = "done"
    /\ \E i \in 1..Len(results) :
          /\ results[i].buy_price = 1000 /\ results[i].sell_price = 2000
          /\ results[i].volume = 2
          /\ results[i].unit_profit = 910
          /\ results[i].total_profit = 1820
    /\ \E i \in 1..Len(results) :
          /\ results[i].unit_profit < 0
          /\ results[i].total_profit < 0

\* C11: every returned opportunity is of a type that has a usable sell
\* order and a usable buy order (a type with usable orders on one side
\* only is never returned), and no two returned opportunities are of the
\* same type.
C11_BothSidesOnce ==
    apc = "done" =>
        /\ \A i \in 1..Len(results) :
              /\ UsableSells(TypeOf(results[i])) # {}
              /\ UsableBuys(TypeOf(results[i])) # {}
        /\ \A i, j \in 1..Len(results) :
              TypeOf(results[i]) = TypeOf(results[j]) => i = j

\* type 35 has a usable sell order at a positive price and no usable buy
\* order and is left out, while type 34, usable on both sides, is the one
\* opportunity returned
C11_Witness ==
    /\ apc = "done"
    /\ UsableSells(35) # {} /\ MinPrice(UsableSells(35)) > 0
    /\ UsableBuys(35) = {}
    /\ 34 \in Answerable
    /\ Len(results) = 1 /\ TypeOf(results[1]) = 34

\* the stored orders that pass the cutoff and the location filter of the
\* call: stamped at or after the cutoff and, when a source or a
\* destination is given (any id, 0 included), located at one of them
PassingOrders ==
    {d \in orders_col :
        /\ d.last_updated >= now - app_CACHE_MINUTES
        /\ (source_station # None \/ dest_station # None) =>
              d.location_id \in {source_station, dest_station}}

\* C12: a call on a store without an order that passes the cutoff and the
\* location filter returns the empty list, whatever the two filters are
\* (the store may be empty, hold only stale orders, or hold fresh orders
\* at other locations only).
C12_NothingPassesEmpty ==
    (apc = "done" /\ PassingOrders = {}) => results = <<>>

\* a call with source location 0 on a store whose fresh orders, a sell and
\* a buy of type 34 among them, are all at other locations, one order
\* being stale: it returned the empty list
C12_Witness ==
    /\ apc = "done" /\ results = <<>>
    /\ source_station = 0 /\ dest_station = None
    /\ PassingOrders = {}
    /\ \E s, b \in orders_col :
          /\ s.type_id = 34 /\ b.type_id = 34
          /\ s.is_buy_order = FALSE /\ b.is_buy_order = TRUE
          /\ s.last_updated >= now - app_CACHE_MINUTES
          /\ b.last_updated >= now - app_CACHE_MINUTES
    /\ \E d \in orders_col : d.last_updated < now - app_CACHE_MINUTES

(***************************************************************************)
(* Reading the page log of a fetch_all_orders call                         *)
(***************************************************************************)
\* the bodies of the first n logged responses, one after the other
RECURSIVE ConcatBatches(_, _)
ConcatBatches(rs, n) ==
    IF n = 0 THEN <<>> ELSE ConcatBatches(rs, n - 1) \o rs[n].batch

\* response k let the loop go on to page k + 1
GoesOn(rs, k) ==
    /\ rs[k].status_code = 200 /\ rs[k].batch # <<>>
    /\ rs[k].x_pages # None /\ rs[k].x_pages > k

\* the latest response is a successful empty page
EmptyPageLast ==
    /\ responses # <<>>
    /\ responses[Len(responses)].status_code = 200
    /\ responses[Len(responses)].batch = <<>>

\* C13: when request N is answered by an empty page (pages 1..N-1 having
\* been non-empty with a total above their index), the call has requested
\* exactly pages 1..N in order, the loop has ended, and the accumulated
\* and returned orders are those of pages 1..N-1 in page order.
C13_EmptyPageEnds ==
    EmptyPageLast =>
        LET N == Len(responses)
        IN  /\ fpc = "done"
            /\ requests = [k \in 1..N |-> k]
            /\ \A k \in 1..(N - 1) : GoesOn(responses, k)
            /\ orders = ConcatBatches(responses, N - 1)
            /\ [k \in 1..Len(returned) |-> returned[k].order_id]
                  = [k \in 1..Len(orders) |-> orders[k].order_id]

\* pages 1 and 2 each brought an order and page 3 came back empty
C13_Witness ==
    /\ EmptyPageLast
    /\ Len(responses) = 3
    /\ requests = <<1, 2, 3>>
    /\ Len(orders) = 2 /\ orders[1] # orders[2]
    /\ fpc = "done"

\* C14: a find_arbitrage call leaves the order store and the station,
\* item and region collections as they were and issues no page request,
\* also when it had to name a station or an item that is not cached.
C14_ReadOnly ==
    [][(apc = "idle" /\ apc' = "done") =>
          /\ orders_col' = orders_col
          /\ stations_col' = stations_col
          /\ items_col' = items_col
          /\ regions_col' = regions_col
          /\ requests' = requests /\ responses' = responses]_vars

\* a call returned an opportunity whose destination station and whose
\* item are missing from the filled reference caches (placeholder names)
C14_Witness ==
    /\ apc = "done"
    /\ stations_col # {} /\ items_col # {}
    /\ \E i \in 1..Len(results) :
          /\ results[i].item[1] = "Type"
          /\ results[i].dest_station.name[1] = "str"
          /\ results[i].dest_station.security = Unknown
          /\ \A c \in stations_col : c.station_id # DestOf(results[i])
          /\ \A c \in items_col : c.type_id # TypeOf(results[i])

\* C15 as claimed: no reference lookup made by the batch (region name,
\* station, item) ends in an exception raised to the batch, whatever the
\* external call does on a cache miss.
C15_LookupNeverFails ==
    [][(bpc \in {"name", "stations", "items"}) => bpc' # "aborted"]_vars

\* C16: a type whose cheapest usable sell order is free (the margin
\* division fails) is absent from the answer, and every other type with a
\* usable sell and a usable buy order is in the answer of a call that got
\* past its pre-check.
C16_FailingTypeSkipped ==
    apc = "done" =>
        /\ \A i \in 1..Len(results) :
              MinPrice(UsableSells(TypeOf(results[i]))) # 0
        /\ PassingOrders # {} =>
              \A ty \in Answerable :
                  \E i \in 1..Len(results) : TypeOf(results[i]) = ty

\* type 35 has the free sell order and a buy order usable and is left
\* out; type 34, usable on both sides, is the one opportunity returned
C16_Witness ==
    /\ apc = "done"
    /\ UsableSells(35) # {} /\ MinPrice(UsableSells(35)) = 0
    /\ UsableBuys(35) # {}
    /\ 34 \in Answerable
    /\ Len(results) = 1 /\ TypeOf(results[1]) = 34

\* C17 as claimed: when a source location is given (any id, 0 included)
\* every returned opportunity is sourced there, and when a destination
\* location is given every returned opportunity is destined there.
C17_FiltersRestrict ==
    apc = "done" =>
        /\ source_station # None =>
              \A i \in 1..Len(results) : SourceOf(results[i]) = source_station
        /\ dest_station # None =>
              \A i \in 1..Len(results) : DestOf(results[i]) = dest_station

\* find_arbitrage without lines 43-56: the two side reads, filtered by
\* cutoff and location as the code filters them, and the loop
find_arbitrage_unchecked(col, src, dst, t) ==
    LET sells  == SellOrders(col, src, t)
        buys   == BuyOrders(col, dst, t)
        common == CommonTypeIds(sells, buys)
    IN  UNION {Collect(ts, sells, buys) : ts \in ListsOf(common)}

\* C18 as claimed: whatever the store and the two filters, the
\* opportunities a call returns are those the same call returns without
\* its pre-check.
C18_PreCheckIsShortcut ==
    apc = "done" =>
        \E rs \in find_arbitrage_unchecked(orders_col, source_station,
                                           dest_station, now) :
            Range(rs) = Range(results)

\* the page log of a call in order: pages 1, 2, 3, ... without gap or
\* repeat, each request but the first made after a response that let the
\* loop go on, and at most the latest request still unanswered
PageLogInOrder ==
    /\ requests = [k \in 1..Len(requests) |-> k]
    /\ Len(responses) \in {Len(requests), Len(requests) - 1}
    /\ \A k \in 1..(Len(requests) - 1) : GoesOn(responses, k)

\* the latest response ends the paging: it is the k-th and it failed, was
\* empty, carried no total or a total of at most k
LastResponseEnds ==
    /\ responses # <<>>
    /\ ~GoesOn(responses, Len(responses))

\* C19: the pages of a call are requested in the order 1, 2, 3, ..., each
\* after a successful, non-empty response to the one before that carried
\* a larger total; after a response that ends the paging no request
\* follows; and the store is written by no step but the one that
\* completes the last request.
C19_SequentialBounded ==
    [][/\ PageLogInOrder'
       /\ LastResponseEnds' => fpc' # "paging"
       /\ fpc # "paging" => Len(requests') <= Len(requests)
       /\ orders_col' # orders_col => (fpc = "paging" /\ fpc' = "done")]_vars

\* three pages were requested, the third answer closed the paging by
\* reaching the advertised total of 3, and the region's orders are
\* stored with the stamp of this call
C19_Witness ==
    /\ fpc = "done"
    /\ requests = <<1, 2, 3>> /\ Len(responses) = 3
    /\ responses[3].status_code = 200 /\ responses[3].batch # <<>>
    /\ responses[3].x_pages = 3
    /\ Len(orders) = 3
    /\ \E d \in orders_col : d.region_id = region_id /\ d.last_updated = now

\* C20: no two stored orders share an order_id, after any sequence of
\* save_orders_to_cache calls over any regions, whatever the lists repeat
\* or carry over from another region.
C20_UniqueOrderId ==
    \A d, e \in orders_col : d.order_id = e.order_id => d = e

\* the latest call handed region 2 a list naming order 1 twice, at two
\* prices, while order 1 was stored under region 1: it is now stored
\* once, under region 2 at the later price, beside an order of region 1
C20_Witness ==
    /\ lastCall # NoCall
    /\ lastCall.region_id = 2
    /\ Len(lastCall.orders) = 2
    /\ lastCall.orders[1].order_id = 1 /\ lastCall.orders[2].order_id = 1
    /\ lastCall.orders[1].price # lastCall.orders[2].price
    /\ lastCall.moved = {1}
    /\ \E d \in orders_col :
          /\ d.order_id = 1 /\ d.region_id = 2
          /\ d.price = lastCall.orders[2].price
    /\ \E d \in orders_col : d.region_id = 1

====
